---- MODULE Spec2Model ----
(***************************************************************************)
(* Model of skrl's ParallelTrainer (src/skrl/trainers/torch/parallel.py):  *)
(* one coordinator process (ParallelTrainer.train / ParallelTrainer.eval)  *)
(* and one worker process per agent (fn_processor), connected by one       *)
(* command pipe and one data queue per worker and by one barrier of        *)
(* num_agents + 1 parties.                                                 *)
(*                                                                         *)
(* Tensors are sequences of small integers (one element per environment    *)
(* row).  The states tensor lives in shared memory, so it is modelled as   *)
(* a reference into the heap `mem`: the slice a worker caches is a view.   *)
(* The Environment and the Agents are deterministic stubs.                 *)
(***************************************************************************)
EXTENDS Integers, Sequences, FiniteSets, TLC

\* ------------------------------------------------------------------ bounds
MaxAgents == 2
NumEnvs == 3
MaxTimesteps == 2
MaxInitialTimestep == 1
ValueMod == 2

Workers == 1..MaxAgents
COORD == 0

\* ----------------------------------------------------------------- helpers
Min(a, b) == IF a < b THEN a ELSE b

RECURSIVE SumSeq(_)
SumSeq(s) == IF s = <<>> THEN 0 ELSE Head(s) + SumSeq(Tail(s))

RECURSIVE Flatten(_)
Flatten(ss) == IF ss = <<>> THEN <<>> ELSE Head(ss) \o Flatten(Tail(ss))

AnyTrue(bs) == \E i \in 1..Len(bs) : bs[i]

\* x[scope[0]:scope[1]] on the batch dimension (python slices clamp to the length)
Slice(x, scope) ==
    LET lo == Min(scope[1], Len(x))
        hi == Min(scope[2], Len(x))
    IN IF lo >= hi THEN <<>> ELSE SubSeq(x, lo + 1, hi)

\* ------------------------------------------------------------ agent stubs
\* An agent is an instance of a class; its method resolution order is the list
\* of its classes from type(agent) up to the Agent base class.  "Learner"
\* stands for a class that overrides record_transition / post_interaction with
\* learning behaviour (PPO, SAC, ...), "Custom" for a user class deriving from
\* a Learner, "Agent" for the non-learning base class.
DirectMro  == <<"Learner", "Agent">>
DerivedMro == <<"Custom", "Learner", "Agent">>

AgentKinds ==
    { [policy |-> 1, mro |-> DirectMro],
      [policy |-> 0, mro |-> DerivedMro] }

\* the class whose method body runs for agent.method(...)
Resolve(mro) == IF mro[1] = "Custom" THEN mro[2] ELSE mro[1]

\* the class whose method body runs for super(type(agent), agent).method(...)
SuperResolve(mro) == mro[2]

\* agent.act(states, ...)[0]: a row-wise deterministic policy
AgentAct(agent, rows) == [i \in 1..Len(rows) |-> (rows[i] + agent.policy) % ValueMod]

\* ------------------------------------------------------------- environment
DonePatterns ==
    { [i \in 1..NumEnvs |-> FALSE],
      [i \in 1..NumEnvs |-> TRUE],
      [i \in 1..NumEnvs |-> i = NumEnvs] }

\* env.reset()
EnvReset == [i \in 1..NumEnvs |-> i % ValueMod]

\* env.step(actions) on the environment's current states `cur`
EnvStep(cur, acts, dn, t) ==
    [ next_states |-> [i \in 1..NumEnvs |->
                          (cur[i] + (IF i <= Len(acts) THEN acts[i] ELSE 0) + 1) % ValueMod],
      rewards     |-> [i \in 1..NumEnvs |-> IF i <= Len(acts) THEN acts[i] ELSE 0],
      dones       |-> dn,
      infos       |-> t ]

\* ------------------------------------------------------------------- state
VARIABLES
    self,       \* the trainer's attributes: agents, scope_arg, agents_scope, timesteps, initial_timestep, headless
    main,       \* the coordinator (train / eval): pc, loop index, locals
    proc,       \* the worker processes (fn_processor): pc and locals, per worker
    pipes,      \* consumer_pipes / producer_pipes: one FIFO of commands per worker
    queues,     \* queues: one FIFO of data items per worker, used by both ends
    barrier,    \* mp.Barrier(num_agents + 1): parties, count, state
    mem,        \* shared memory: the contents of every states tensor allocated so far
    env,        \* the Environment stub: its current states and the calls made on it
    calls,      \* per agent: the calls made on it, in order
    obs,        \* per worker: the commands it received, in order
    trace,      \* per executed timestep: states, actions, rewards, dones
    sync,       \* barrier bookkeeping: waits entered and left per participant, generations tripped
    mixin       \* a GaussianMixin instance (models/jax/gaussian.py): constructor arguments, attributes

vars == <<self, main, proc, pipes, queues, barrier, mem, env, calls, obs, trace, sync, mixin>>

num_agents == Len(self.agents)
Active == 1..num_agents

NoTensor == <<>>
NoMsg == [task |-> "none", timestep |-> 0, timesteps |-> 0]
NoAgent == [policy |-> 0, mro |-> <<>>]
NoView == [ref |-> 0, scope |-> <<0, 0>>]
NoMixin == [pc |-> "none"]

\* inputs of ParallelTrainer(env, agents, agents_scope, cfg)
AgentLists ==
    UNION { { [i \in 1..n |-> CHOOSE k \in AgentKinds : k.policy = 1],
              [i \in 1..n |-> CHOOSE k \in AgentKinds : k.policy = i % 2] } : n \in 1..MaxAgents }

ScopeArgs == UNION { [1..n -> 0..NumEnvs] : n \in 1..MaxAgents }

Init ==
    /\ self \in { [agents |-> a, scope_arg |-> s, agents_scope |-> <<>>,
                   timesteps |-> T, initial_timestep |-> t0, headless |-> h] :
                  a \in AgentLists, s \in ScopeArgs, T \in 0..MaxTimesteps,
                  t0 \in 0..MaxInitialTimestep, h \in BOOLEAN }
    /\ main = [pc |-> "idle", mode |-> "none", i |-> 1, j |-> 1, ret |-> "none", timestep |-> 0,
               states |-> 0, actions |-> NoTensor, got |-> <<>>,
               next_states |-> NoTensor, rewards |-> NoTensor, dones |-> NoTensor, infos |-> 0]
    /\ proc = [w \in Workers |-> [pc |-> "none", msg |-> NoMsg, agent |-> NoAgent,
                                  w_states |-> NoView, w_actions |-> NoTensor, args |-> <<>>]]
    /\ pipes = <<>>
    /\ queues = <<>>
    /\ barrier = [parties |-> 0, count |-> 0, state |-> 0]
    /\ mem = <<>>
    /\ env = [cur |-> NoTensor, calls |-> <<>>]
    /\ calls = [a \in Workers |-> <<>>]
    /\ obs = [w \in Workers |-> <<>>]
    /\ trace = <<>>
    /\ sync = [entered |-> [p \in 0..MaxAgents |-> 0], left |-> [p \in 0..MaxAgents |-> 0], gen |-> 0]
    /\ mixin = NoMixin

\* ----------------------------------------------------------------- barrier
\* threading.Barrier.wait, first half: enter (blocks while the barrier drains),
\* count the arrival; the last of the parties releases the barrier and leaves at once.
BarrierLast(b) == b.count + 1 = b.parties

BarrierEnter(b) ==
    IF BarrierLast(b)
    THEN [b EXCEPT !.state = IF b.count = 0 THEN 0 ELSE 1]
    ELSE [b EXCEPT !.count = b.count + 1]

BarrierExit_early_reset(b) ==
    [b EXCEPT !.count = b.count - 1, !.state = 0]

\* second half: a waiting party wakes once the barrier drains, and the last one
\* to leave resets it for the next generation.
BarrierExit(b) ==
    [b EXCEPT !.count = b.count - 1, !.state = IF b.count = 1 THEN 0 ELSE 1]

SyncEnter(p, last) ==
    [sync EXCEPT !.entered[p] = @ + 1,
                 !.left[p] = IF last THEN @ + 1 ELSE @,
                 !.gen = IF last THEN @ + 1 ELSE @]

SyncLeave(p) == [sync EXCEPT !.left[p] = @ + 1]

\* ------------------------------------------------------- calls and messages
NoArgs == [states |-> <<>>, actions |-> <<>>, rewards |-> <<>>, next_states |-> <<>>,
           dones |-> <<>>, infos |-> -1]

\* one call on an agent: the method, the class whose body runs, the calling process
Call(m, impl, by, t, a) == [m |-> m, impl |-> impl, by |-> by, timestep |-> t, args |-> a]

EnvCall(op, t) == [op |-> op, timestep |-> t]

Msg(task, t) == [task |-> task, timestep |-> t, timesteps |-> self.timesteps]

Item(what, by, val) == [what |-> what, by |-> by, val |-> val]

StepCalls_twice(t) == <<EnvCall("step", t), EnvCall("step", t)>>

\* env.step(actions) followed by env.render() unless headless
StepCalls(t) ==
    IF self.headless THEN <<EnvCall("step", t)>> ELSE <<EnvCall("step", t), EnvCall("render", t)>>

\* --------------------------------------------------- scope table (bootstrap)
\* agents_scope is given as the number of environments of each agent and is
\* turned into one half-open range per agent, in agent order.
ScopeRanges(counts) ==
    [i \in 1..Len(counts) |->
        <<SumSeq(SubSeq(counts, 1, i - 1)), SumSeq(SubSeq(counts, 1, i))>>]

ValidScopeTable_unchecked(agents, counts) == TRUE

\* the ScopeTable invariant: every range is non-empty and the ranges cover
\* every row of the batch exactly once
TilesBatch(ranges) ==
    /\ \A i \in 1..Len(ranges) : 0 <= ranges[i][1] /\ ranges[i][1] < ranges[i][2] /\ ranges[i][2] <= NumEnvs
    /\ \A r \in 0..(NumEnvs - 1) :
          Cardinality({i \in 1..Len(ranges) : ranges[i][1] <= r /\ r < ranges[i][2]}) = 1

ValidScopeTable(agents, counts) ==
    /\ Len(agents) = Len(counts)
    /\ TilesBatch(ScopeRanges(counts))

\* ------------------------------------------- single agent (sequential) path
\* The phase sequence run in the coordinator process on the one agent:
\* s is [t, states, calls, envcalls, trace]; script gives the dones of each step.
RECURSIVE single_agent_loop(_, _, _, _)
single_agent_loop(agent, md, s, script) ==
    IF s.t >= self.timesteps \/ script = <<>> THEN s
    ELSE
      LET t     == s.t
          acts  == AgentAct(agent, s.states)
          out   == EnvStep(s.states, acts, Head(script), t)
          rec   == [NoArgs EXCEPT !.states = s.states, !.actions = acts, !.rewards = out.rewards,
                                  !.next_states = out.next_states, !.dones = out.dones,
                                  !.infos = out.infos]
          actc  == Call("act", Resolve(agent.mro), COORD, t,
                        [NoArgs EXCEPT !.states = s.states, !.actions = acts])
          cs    == IF md = "train"
                   THEN << Call("pre_interaction", Resolve(agent.mro), COORD, t, NoArgs),
                           actc,
                           Call("record_transition", Resolve(agent.mro), COORD, t, rec),
                           Call("post_interaction", Resolve(agent.mro), COORD, t, NoArgs) >>
                   ELSE << actc,
                           Call("record_transition", SuperResolve(agent.mro), COORD, t, rec),
                           Call("post_interaction", SuperResolve(agent.mro), COORD, t, NoArgs) >>
          reset == AnyTrue(out.dones)
      IN single_agent_loop(agent, md,
            [ t        |-> t + 1,
              states   |-> IF reset THEN EnvReset ELSE out.next_states,
              calls    |-> s.calls \o cs,
              envcalls |-> s.envcalls \o StepCalls(t)
                              \o (IF reset THEN <<EnvCall("reset", t)>> ELSE <<>>),
              trace    |-> Append(s.trace, [timestep |-> t, ref |-> 0, states |-> s.states,
                                            actions |-> acts, rewards |-> out.rewards,
                                            next_states |-> out.next_states, dones |-> out.dones]) ],
            Tail(script))

single_agent_run(agent, md, script) ==
    single_agent_loop(agent, md,
        [ t |-> self.initial_timestep, states |-> EnvReset,
          calls |-> <<Call("init", Resolve(agent.mro), COORD, -1, NoArgs)>>,
          envcalls |-> <<EnvCall("reset", -1)>>, trace |-> <<>> ],
        script)

\* the environment is closed when the run ends
single_agent_close == <<EnvCall("close", -1)>>

RangeLen == IF self.timesteps > self.initial_timestep
            THEN self.timesteps - self.initial_timestep ELSE 0

Scripts == [1..RangeLen -> DonePatterns]

\* ------------------------------------------------------------- coordinator
Modes == {"train", "eval"}

LoopPc_do_while(md, t) ==
    IF t < self.timesteps \/ t = self.initial_timestep
    THEN (IF md = "train" THEN "pre_send" ELSE "act_send")
    ELSE "term_send"

\* the first phase of a timestep, or the teardown once the range is exhausted
LoopPc(md, t) ==
    IF t < self.timesteps
    THEN (IF md = "train" THEN "pre_send" ELSE "act_send")
    ELSE "term_send"

\* the next element of a `for ... in zip(producer_pipes, queues)` loop, or the
\* barrier.wait() that follows the loop
NextWorker(m, pcLoop, pcAfter) ==
    IF m.i < num_agents
    THEN [m EXCEPT !.pc = pcLoop, !.i = m.i + 1, !.j = 1]
    ELSE [m EXCEPT !.pc = "barrier", !.ret = pcAfter, !.i = 1, !.j = 1]

IsSingleAgent_never == FALSE

\* if self.num_agents == 1
IsSingleAgent == num_agents = 1

\* train() / eval() with one agent: agents.init(), single_agent_train() / single_agent_eval(), return
SingleAgent(md) ==
    /\ main.pc = "idle"
    /\ IsSingleAgent
    /\ \E script \in Scripts :
         LET r == single_agent_run(self.agents[1], md, script)
         IN /\ calls' = [calls EXCEPT ![1] = r.calls]
            /\ env' = [cur |-> r.states, calls |-> r.envcalls \o single_agent_close]
            /\ trace' = r.trace
            /\ main' = [main EXCEPT !.pc = "done", !.mode = md, !.timestep = r.t]
    /\ UNCHANGED <<self, proc, pipes, queues, barrier, mem, obs, sync, mixin>>

\* train() / eval() with several agents: the scope table is validated first
Bootstrap(md) ==
    /\ main.pc = "idle"
    /\ ~IsSingleAgent
    /\ IF ValidScopeTable(self.agents, self.scope_arg)
       THEN /\ self' = [self EXCEPT !.agents_scope = ScopeRanges(self.scope_arg)]
            /\ main' = [main EXCEPT !.pc = "create", !.mode = md]
       ELSE /\ main' = [main EXCEPT !.pc = "config_error", !.mode = md]
            /\ UNCHANGED self
    /\ UNCHANGED <<proc, pipes, queues, barrier, mem, env, calls, obs, trace, sync, mixin>>

BarrierParties_without_main == num_agents

\* barrier = mp.Barrier(self.num_agents + 1)
BarrierParties == num_agents + 1

\* initialize multiprocessing variables (and move tensors to shared memory)
CreateChannels ==
    /\ main.pc = "create"
    /\ pipes' = [w \in Active |-> <<>>]
    /\ queues' = [w \in Active |-> <<>>]
    /\ barrier' = [parties |-> BarrierParties, count |-> 0, state |-> 0]
    /\ main' = [main EXCEPT !.pc = "spawn", !.i = 1]
    /\ UNCHANGED <<self, proc, mem, env, calls, obs, trace, sync, mixin>>

\* process.start() of worker i; after the last one, barrier.wait()
Spawn ==
    /\ main.pc = "spawn"
    /\ proc' = [proc EXCEPT ![main.i].pc = "barrier"]
    /\ main' = NextWorker(main, "spawn", "init_send")
    /\ UNCHANGED <<self, pipes, queues, barrier, mem, env, calls, obs, trace, sync, mixin>>

\* barrier.wait() of the coordinator: arrive
MainBarrierEnter ==
    /\ main.pc = "barrier"
    /\ barrier.state = 0
    /\ barrier' = BarrierEnter(barrier)
    /\ sync' = SyncEnter(COORD, BarrierLast(barrier))
    /\ main' = [main EXCEPT !.pc = IF BarrierLast(barrier) THEN main.ret ELSE "barrier_wait"]
    /\ UNCHANGED <<self, proc, pipes, queues, mem, env, calls, obs, trace, mixin>>

\* barrier.wait() of the coordinator: released
MainBarrierExit ==
    /\ main.pc = "barrier_wait"
    /\ barrier.state = 1
    /\ barrier' = BarrierExit(barrier)
    /\ sync' = SyncLeave(COORD)
    /\ main' = [main EXCEPT !.pc = main.ret]
    /\ UNCHANGED <<self, proc, pipes, queues, mem, env, calls, obs, trace, mixin>>

\* pipe.send({'task': 'init'})
InitSend ==
    /\ main.pc = "init_send"
    /\ pipes' = [pipes EXCEPT ![main.i] = Append(@, Msg("init", 0))]
    /\ main' = [main EXCEPT !.pc = "init_put"]
    /\ UNCHANGED <<self, proc, queues, barrier, mem, env, calls, obs, trace, sync, mixin>>

InitPut_first_agent ==
    /\ main.pc = "init_put"
    /\ queues' = [queues EXCEPT ![main.i] = Append(@, Item("agent", COORD, self.agents[1]))]
    /\ main' = NextWorker(main, "init_send", "reset")
    /\ UNCHANGED <<self, proc, pipes, barrier, mem, env, calls, obs, trace, sync, mixin>>

\* queue.put(agent)
InitPut ==
    /\ main.pc = "init_put"
    /\ queues' = [queues EXCEPT ![main.i] = Append(@, Item("agent", COORD, self.agents[main.i]))]
    /\ main' = NextWorker(main, "init_send", "reset")
    /\ UNCHANGED <<self, proc, pipes, barrier, mem, env, calls, obs, trace, sync, mixin>>

\* states = self.env.reset() before the loop
ResetEnv ==
    /\ main.pc = "reset"
    /\ mem' = Append(mem, EnvReset)
    /\ env' = [cur |-> EnvReset, calls |-> Append(env.calls, EnvCall("reset", -1))]
    /\ main' = [main EXCEPT !.states = Len(mem) + 1, !.timestep = self.initial_timestep,
                            !.pc = LoopPc(main.mode, self.initial_timestep), !.i = 1]
    /\ UNCHANGED <<self, proc, pipes, queues, barrier, calls, obs, trace, sync, mixin>>

\* pipe.send({"task": "pre_interaction", ...}) to each worker, then barrier.wait()
PreSend ==
    /\ main.pc = "pre_send"
    /\ pipes' = [pipes EXCEPT ![main.i] = Append(@, Msg("pre_interaction", main.timestep))]
    /\ main' = NextWorker(main, "pre_send", "act_send")
    /\ UNCHANGED <<self, proc, queues, barrier, mem, env, calls, obs, trace, sync, mixin>>

\* pipe.send({"task": "act", ...})
ActSend ==
    /\ main.pc = "act_send"
    /\ pipes' = [pipes EXCEPT ![main.i] = Append(@, Msg("act", main.timestep))]
    /\ main' = [main EXCEPT !.pc = "act_put"]
    /\ UNCHANGED <<self, proc, queues, barrier, mem, env, calls, obs, trace, sync, mixin>>

ActPut_no_barrier ==
    /\ main.pc = "act_put"
    /\ queues' = [queues EXCEPT ![main.i] = Append(@, Item("states", COORD, main.states))]
    /\ main' = IF main.i < num_agents
               THEN [main EXCEPT !.pc = "act_send", !.i = main.i + 1, !.got = <<>>]
               ELSE [main EXCEPT !.pc = "gather", !.i = 1, !.got = <<>>]
    /\ UNCHANGED <<self, proc, pipes, barrier, mem, env, calls, obs, trace, sync, mixin>>

\* queue.put(states)
ActPut ==
    /\ main.pc = "act_put"
    /\ queues' = [queues EXCEPT ![main.i] = Append(@, Item("states", COORD, main.states))]
    /\ main' = [NextWorker(main, "act_send", "gather") EXCEPT !.got = <<>>]
    /\ UNCHANGED <<self, proc, pipes, barrier, mem, env, calls, obs, trace, sync, mixin>>

RECURSIVE vstack_reversed(_)
vstack_reversed(tensors) ==
    IF tensors = <<>> THEN <<>> ELSE vstack_reversed(Tail(tensors)) \o Head(tensors)

\* torch.vstack(tensors): the rows of the tensors, in list order
vstack(tensors) == Flatten(tensors)

\* actions = torch.vstack([queue.get() for queue in queues])
Gather ==
    /\ main.pc = "gather"
    /\ queues[main.i] # <<>>
    /\ queues' = [queues EXCEPT ![main.i] = Tail(@)]
    /\ LET got == Append(main.got, Head(queues[main.i]).val)
       IN main' = IF main.i < num_agents
                  THEN [main EXCEPT !.i = main.i + 1, !.got = got]
                  ELSE [main EXCEPT !.pc = "step", !.i = 1, !.got = <<>>, !.actions = vstack(got)]
    /\ UNCHANGED <<self, proc, pipes, barrier, mem, env, calls, obs, trace, sync, mixin>>

RecordTask_train_only(md) == "record_transition"

\* the command of the recording phase: it depends on the entry point
RecordTask(md) == IF md = "train" THEN "record_transition" ELSE "eval-record_transition-post_interaction"

\* next_states, rewards, dones, infos = self.env.step(actions); self.env.render()
Step ==
    /\ main.pc = "step"
    /\ \E dn \in DonePatterns :
         LET out == EnvStep(env.cur, main.actions, dn, main.timestep)
         IN /\ main' = [main EXCEPT !.pc = "rec_send", !.i = 1, !.j = 1,
                                    !.next_states = out.next_states, !.rewards = out.rewards,
                                    !.dones = out.dones, !.infos = out.infos]
            /\ env' = [cur |-> out.next_states, calls |-> env.calls \o StepCalls(main.timestep)]
            /\ trace' = Append(trace, [timestep |-> main.timestep, ref |-> main.states,
                                       states |-> mem[main.states], actions |-> main.actions,
                                       rewards |-> out.rewards, next_states |-> out.next_states,
                                       dones |-> out.dones])
    /\ UNCHANGED <<self, proc, pipes, queues, barrier, mem, calls, obs, sync, mixin>>

\* pipe.send({"task": "record_transition" | "eval-record_transition-post_interaction", ...})
RecordSend ==
    /\ main.pc = "rec_send"
    /\ pipes' = [pipes EXCEPT ![main.i] = Append(@, Msg(RecordTask(main.mode), main.timestep))]
    /\ main' = [main EXCEPT !.pc = "rec_put", !.j = 1]
    /\ UNCHANGED <<self, proc, queues, barrier, mem, env, calls, obs, trace, sync, mixin>>

\* the j-th of queue.put(rewards), queue.put(next_states), queue.put(dones), queue.put(infos)
RecordItem(m, j) ==
    CASE j = 1 -> Item("rewards", COORD, m.rewards)
      [] j = 2 -> Item("next_states", COORD, m.next_states)
      [] j = 3 -> Item("dones", COORD, m.dones)
      [] OTHER -> Item("infos", COORD, m.infos)

AfterRecord_skip_post(md) == "reset_envs"

\* the phase after the recording barrier: post-interaction in train, the reset in eval
AfterRecord(md) == IF md = "train" THEN "post_send" ELSE "reset_envs"

RecordPut ==
    /\ main.pc = "rec_put"
    /\ queues' = [queues EXCEPT ![main.i] = Append(@, RecordItem(main, main.j))]
    /\ main' = IF main.j < 4
               THEN [main EXCEPT !.j = main.j + 1]
               ELSE NextWorker(main, "rec_send", AfterRecord(main.mode))
    /\ UNCHANGED <<self, proc, pipes, barrier, mem, env, calls, obs, trace, sync, mixin>>

PostSend_no_barrier ==
    /\ main.pc = "post_send"
    /\ pipes' = [pipes EXCEPT ![main.i] = Append(@, Msg("post_interaction", main.timestep))]
    /\ main' = IF main.i < num_agents
               THEN [main EXCEPT !.i = main.i + 1]
               ELSE [main EXCEPT !.pc = "reset_envs", !.i = 1]
    /\ UNCHANGED <<self, proc, queues, barrier, mem, env, calls, obs, trace, sync, mixin>>

\* pipe.send({"task": "post_interaction", ...}) to each worker, then barrier.wait()
PostSend ==
    /\ main.pc = "post_send"
    /\ pipes' = [pipes EXCEPT ![main.i] = Append(@, Msg("post_interaction", main.timestep))]
    /\ main' = NextWorker(main, "post_send", "reset_envs")
    /\ UNCHANGED <<self, proc, queues, barrier, mem, env, calls, obs, trace, sync, mixin>>

NeedsReset_all(dones) == \A i \in 1..Len(dones) : dones[i]

\* if dones.any()
NeedsReset(dones) == AnyTrue(dones)

\* reset environments: states = self.env.reset(), or states.copy_(next_states) in place
ResetEnvs ==
    /\ main.pc = "reset_envs"
    /\ IF NeedsReset(main.dones)
       THEN /\ mem' = Append(mem, EnvReset)
            /\ env' = [cur |-> EnvReset, calls |-> Append(env.calls, EnvCall("reset", main.timestep))]
            /\ main' = [main EXCEPT !.states = Len(mem) + 1, !.timestep = main.timestep + 1,
                                    !.pc = LoopPc(main.mode, main.timestep + 1), !.i = 1]
       ELSE /\ mem' = [mem EXCEPT ![main.states] = main.next_states]
            /\ main' = [main EXCEPT !.timestep = main.timestep + 1,
                                    !.pc = LoopPc(main.mode, main.timestep + 1), !.i = 1]
            /\ UNCHANGED env
    /\ UNCHANGED <<self, proc, pipes, queues, barrier, calls, obs, trace, sync, mixin>>

\* pipe.send({"task": "terminate"}) to each worker
TerminateSend ==
    /\ main.pc = "term_send"
    /\ pipes' = [pipes EXCEPT ![main.i] = Append(@, Msg("terminate", 0))]
    /\ main' = IF main.i < num_agents
               THEN [main EXCEPT !.i = main.i + 1]
               ELSE [main EXCEPT !.pc = "join", !.i = 1]
    /\ UNCHANGED <<self, proc, queues, barrier, mem, env, calls, obs, trace, sync, mixin>>

\* process.join() of worker i: returns once the process has exited
Join ==
    /\ main.pc = "join"
    /\ proc[main.i].pc = "exited"
    /\ main' = IF main.i < num_agents
               THEN [main EXCEPT !.i = main.i + 1]
               ELSE [main EXCEPT !.pc = "close", !.i = 1]
    /\ UNCHANGED <<self, proc, pipes, queues, barrier, mem, env, calls, obs, trace, sync, mixin>>

\* self.env.close()
Close ==
    /\ main.pc = "close"
    /\ env' = [env EXCEPT !.calls = Append(@, EnvCall("close", -1))]
    /\ main' = [main EXCEPT !.pc = "done"]
    /\ UNCHANGED <<self, proc, pipes, queues, barrier, mem, calls, obs, trace, sync, mixin>>

\* ------------------------------------------------------- worker (fn_processor)
ScopeOf_first(w) == self.agents_scope[1]

\* scope = args[3][process_index]
ScopeOf(w) == self.agents_scope[w]

Dispatch_ignore_terminate(task) ==
    CASE task = "init" -> "init"
      [] task = "pre_interaction" -> "pre_interaction"
      [] task = "act" -> "act"
      [] task = "record_transition" -> "record_transition"
      [] task = "post_interaction" -> "post_interaction"
      [] task = "eval-record_transition-post_interaction" -> "eval_record"
      [] OTHER -> "recv"

\* the handler of a command: the branch of the if / elif chain it selects
Dispatch(task) ==
    CASE task = "terminate" -> "exited"
      [] task = "init" -> "init"
      [] task = "pre_interaction" -> "pre_interaction"
      [] task = "act" -> "act"
      [] task = "record_transition" -> "record_transition"
      [] task = "post_interaction" -> "post_interaction"
      [] task = "eval-record_transition-post_interaction" -> "eval_record"
      [] OTHER -> "recv"

\* barrier.wait() of a worker: arrive
WorkerBarrierEnter(w) ==
    /\ proc[w].pc = "barrier"
    /\ barrier.state = 0
    /\ barrier' = BarrierEnter(barrier)
    /\ sync' = SyncEnter(w, BarrierLast(barrier))
    /\ proc' = [proc EXCEPT ![w].pc = IF BarrierLast(barrier) THEN "recv" ELSE "barrier_wait"]
    /\ UNCHANGED <<self, main, pipes, queues, mem, env, calls, obs, trace, mixin>>

\* barrier.wait() of a worker: released
WorkerBarrierExit(w) ==
    /\ proc[w].pc = "barrier_wait"
    /\ barrier.state = 1
    /\ barrier' = BarrierExit(barrier)
    /\ sync' = SyncLeave(w)
    /\ proc' = [proc EXCEPT ![w].pc = "recv"]
    /\ UNCHANGED <<self, main, pipes, queues, mem, env, calls, obs, trace, mixin>>

\* msg = pipe.recv(); task = msg['task']
Recv(w) ==
    /\ proc[w].pc = "recv"
    /\ pipes[w] # <<>>
    /\ LET msg == Head(pipes[w])
       IN /\ proc' = [proc EXCEPT ![w].pc = Dispatch(msg.task), ![w].msg = msg, ![w].args = <<>>]
          /\ obs' = [obs EXCEPT ![w] = Append(@, msg)]
    /\ pipes' = [pipes EXCEPT ![w] = Tail(@)]
    /\ UNCHANGED <<self, main, queues, barrier, mem, env, calls, trace, sync, mixin>>

\* agent = queue.get(); agent.init(); barrier.wait()
WorkerInit(w) ==
    /\ proc[w].pc = "init"
    /\ queues[w] # <<>>
    /\ LET agent == Head(queues[w]).val
       IN /\ proc' = [proc EXCEPT ![w].pc = "barrier", ![w].agent = agent]
          /\ calls' = [calls EXCEPT ![w] = Append(@, Call("init", Resolve(agent.mro), w, -1, NoArgs))]
    /\ queues' = [queues EXCEPT ![w] = Tail(@)]
    /\ UNCHANGED <<self, main, pipes, barrier, mem, env, obs, trace, sync, mixin>>

\* agent.pre_interaction(...); barrier.wait()
WorkerPre(w) ==
    /\ proc[w].pc = "pre_interaction"
    /\ calls' = [calls EXCEPT ![w] = Append(@, Call("pre_interaction", Resolve(proc[w].agent.mro), w,
                                                    proc[w].msg.timestep, NoArgs))]
    /\ proc' = [proc EXCEPT ![w].pc = "barrier"]
    /\ UNCHANGED <<self, main, pipes, queues, barrier, mem, env, obs, trace, sync, mixin>>

\* the rows a cached view of a shared tensor shows now
View(v) == Slice(mem[v.ref], v.scope)

\* _states = queue.get()[scope[0]:scope[1]]; _actions = agent.act(_states, ...)[0]
WorkerAct(w) ==
    /\ proc[w].pc = "act"
    /\ queues[w] # <<>>
    /\ LET view == [ref |-> Head(queues[w]).val, scope |-> ScopeOf(w)]
           acts == AgentAct(proc[w].agent, View(view))
       IN /\ proc' = [proc EXCEPT ![w].pc = "act_put", ![w].w_states = view, ![w].w_actions = acts]
          /\ calls' = [calls EXCEPT ![w] = Append(@, Call("act", Resolve(proc[w].agent.mro), w,
                                                          proc[w].msg.timestep,
                                                          [NoArgs EXCEPT !.states = View(view),
                                                                         !.actions = acts]))]
    /\ queues' = [queues EXCEPT ![w] = Tail(@)]
    /\ UNCHANGED <<self, main, pipes, barrier, mem, env, obs, trace, sync, mixin>>

WorkerActPut_no_put(w) ==
    /\ proc[w].pc = "act_put"
    /\ proc' = [proc EXCEPT ![w].pc = "barrier"]
    /\ UNCHANGED <<self, main, pipes, queues, barrier, mem, env, calls, obs, trace, sync, mixin>>

\* queue.put(_actions); barrier.wait()
WorkerActPut(w) ==
    /\ proc[w].pc = "act_put"
    /\ queues' = [queues EXCEPT ![w] = Append(@, Item("actions", w, proc[w].w_actions))]
    /\ proc' = [proc EXCEPT ![w].pc = "barrier"]
    /\ UNCHANGED <<self, main, pipes, barrier, mem, env, calls, obs, trace, sync, mixin>>

RecordArgs_uncached(w, got) ==
    [ states      |-> Slice(got[2], ScopeOf(w)),
      actions     |-> proc[w].w_actions,
      rewards     |-> Slice(got[1], ScopeOf(w)),
      next_states |-> Slice(got[2], ScopeOf(w)),
      dones       |-> Slice(got[3], ScopeOf(w)),
      infos       |-> got[4] ]

\* the keyword arguments of record_transition, from the cached views and the
\* four items taken off the queue (infos is passed whole)
RecordArgs(w, got) ==
    [ states      |-> View(proc[w].w_states),
      actions     |-> proc[w].w_actions,
      rewards     |-> Slice(got[1], ScopeOf(w)),
      next_states |-> Slice(got[2], ScopeOf(w)),
      dones       |-> Slice(got[3], ScopeOf(w)),
      infos       |-> got[4] ]

\* one of the first three queue.get() of a recording command
WorkerRecordGet(w) ==
    /\ proc[w].pc \in {"record_transition", "eval_record"}
    /\ Len(proc[w].args) < 3
    /\ queues[w] # <<>>
    /\ proc' = [proc EXCEPT ![w].args = Append(@, Head(queues[w]).val)]
    /\ queues' = [queues EXCEPT ![w] = Tail(@)]
    /\ UNCHANGED <<self, main, pipes, barrier, mem, env, calls, obs, trace, sync, mixin>>

\* the calls a worker makes on EVAL_RECORD_AND_POST:
\* super(type(agent), agent).record_transition(...), then super(type(agent), agent).post_interaction(...)
EvalCalls(w, agent, t, a) ==
    << Call("record_transition", SuperResolve(agent.mro), w, t, a),
       Call("post_interaction", SuperResolve(agent.mro), w, t, NoArgs) >>

\* the calls a worker makes on RECORD_TRANSITION: agent.record_transition(...)
RecordCalls(w, agent, t, a) ==
    << Call("record_transition", Resolve(agent.mro), w, t, a) >>

WorkerRecord_no_infos(w) ==
    /\ proc[w].pc \in {"record_transition", "eval_record"}
    /\ Len(proc[w].args) = 3
    /\ LET a == RecordArgs(w, Append(proc[w].args, -1))
           t == proc[w].msg.timestep
       IN calls' = [calls EXCEPT ![w] = @ \o (IF proc[w].pc = "eval_record"
                                              THEN EvalCalls(w, proc[w].agent, t, a)
                                              ELSE RecordCalls(w, proc[w].agent, t, a))]
    /\ proc' = [proc EXCEPT ![w].pc = "barrier", ![w].args = <<>>]
    /\ UNCHANGED <<self, main, pipes, queues, barrier, mem, env, obs, trace, sync, mixin>>

\* infos = queue.get(), the call(s) on the agent, barrier.wait()
WorkerRecord(w) ==
    /\ proc[w].pc \in {"record_transition", "eval_record"}
    /\ Len(proc[w].args) = 3
    /\ queues[w] # <<>>
    /\ LET a == RecordArgs(w, Append(proc[w].args, Head(queues[w]).val))
           t == proc[w].msg.timestep
       IN calls' = [calls EXCEPT ![w] = @ \o (IF proc[w].pc = "eval_record"
                                              THEN EvalCalls(w, proc[w].agent, t, a)
                                              ELSE RecordCalls(w, proc[w].agent, t, a))]
    /\ proc' = [proc EXCEPT ![w].pc = "barrier", ![w].args = <<>>]
    /\ queues' = [queues EXCEPT ![w] = Tail(@)]
    /\ UNCHANGED <<self, main, pipes, barrier, mem, env, obs, trace, sync, mixin>>

WorkerPost_no_barrier(w) ==
    /\ proc[w].pc = "post_interaction"
    /\ calls' = [calls EXCEPT ![w] = Append(@, Call("post_interaction", Resolve(proc[w].agent.mro), w,
                                                    proc[w].msg.timestep, NoArgs))]
    /\ proc' = [proc EXCEPT ![w].pc = "recv"]
    /\ UNCHANGED <<self, main, pipes, queues, barrier, mem, env, obs, trace, sync, mixin>>

\* agent.post_interaction(...); barrier.wait()
WorkerPost(w) ==
    /\ proc[w].pc = "post_interaction"
    /\ calls' = [calls EXCEPT ![w] = Append(@, Call("post_interaction", Resolve(proc[w].agent.mro), w,
                                                    proc[w].msg.timestep, NoArgs))]
    /\ proc' = [proc EXCEPT ![w].pc = "barrier"]
    /\ UNCHANGED <<self, main, pipes, queues, barrier, mem, env, obs, trace, sync, mixin>>

\* ------------------------------------------------------------------ faults
\* An exception raised by a call is logged after the call itself.
RaisedCall(by, t) == Call("raise", "", by, t, NoArgs)

RaisedEnvCall(t) == EnvCall("raise", t)

Die_and_continue(p) == [p EXCEPT !.pc = "barrier", !.args = <<>>]

\* an uncaught exception in fn_processor ends the worker process: nothing in the
\* dispatch loop catches it, so the barrier.wait() of the handler is never reached
Die(p) == [p EXCEPT !.pc = "dead", !.args = <<>>]

\* the Agent calls of the handler the worker is in, up to and including one that raises
FaultCalls(w) ==
    LET agent == IF proc[w].pc = "init" THEN Head(queues[w]).val ELSE proc[w].agent
        t     == proc[w].msg.timestep
        rec   == RecordArgs(w, Append(proc[w].args, Head(queues[w]).val))
    IN CASE proc[w].pc = "init" -> { <<Call("init", Resolve(agent.mro), w, -1, NoArgs)>> }
         [] proc[w].pc = "pre_interaction" ->
                { <<Call("pre_interaction", Resolve(agent.mro), w, t, NoArgs)>> }
         [] proc[w].pc = "act" ->
                { <<Call("act", Resolve(agent.mro), w, t,
                         [NoArgs EXCEPT !.states = Slice(mem[Head(queues[w]).val], ScopeOf(w))])>> }
         [] proc[w].pc = "record_transition" -> { RecordCalls(w, agent, t, rec) }
         [] proc[w].pc = "post_interaction" ->
                { <<Call("post_interaction", Resolve(agent.mro), w, t, NoArgs)>> }
         [] proc[w].pc = "eval_record" ->
                { SubSeq(EvalCalls(w, agent, t, rec), 1, n) : n \in 1..2 }
         [] OTHER -> {}

\* the handlers that take an item off the queue right before their Agent call
TakesItem(pc) == pc \in {"init", "act", "record_transition", "eval_record"}

\* an Agent call of the current handler raises: the worker process dies
WorkerFault(w) ==
    /\ proc[w].pc \in {"init", "pre_interaction", "act", "record_transition",
                       "post_interaction", "eval_record"}
    /\ TakesItem(proc[w].pc) => queues[w] # <<>>
    /\ proc[w].pc \in {"record_transition", "eval_record"} => Len(proc[w].args) = 3
    /\ \E cs \in FaultCalls(w) :
         calls' = [calls EXCEPT ![w] = @ \o cs \o <<RaisedCall(w, proc[w].msg.timestep)>>]
    /\ proc' = [proc EXCEPT ![w] = Die(IF proc[w].pc = "init"
                                       THEN [proc[w] EXCEPT !.agent = Head(queues[w]).val]
                                       ELSE IF proc[w].pc = "act"
                                       THEN [proc[w] EXCEPT !.w_states =
                                                [ref |-> Head(queues[w]).val, scope |-> ScopeOf(w)]]
                                       ELSE proc[w])]
    /\ queues' = IF TakesItem(proc[w].pc) THEN [queues EXCEPT ![w] = Tail(@)] ELSE queues
    /\ UNCHANGED <<self, main, pipes, barrier, mem, env, obs, trace, sync, mixin>>

Raise_and_retry(m, op) == m

\* an exception raised in train() / eval() is not caught: it leaves the method
Raise(m, op) == [m EXCEPT !.pc = "raised", !.ret = op]

\* self.env.reset() or self.env.step(actions) raises
EnvFault ==
    /\ \/ main.pc = "reset" /\ main' = Raise(main, "reset")
                            /\ env' = [env EXCEPT !.calls = @ \o <<EnvCall("reset", -1), RaisedEnvCall(-1)>>]
       \/ main.pc = "step" /\ main' = Raise(main, "step")
                           /\ env' = [env EXCEPT !.calls = @ \o <<EnvCall("step", main.timestep),
                                                                   RaisedEnvCall(main.timestep)>>]
       \/ main.pc = "reset_envs" /\ NeedsReset(main.dones)
                                 /\ main' = Raise(main, "reset")
                                 /\ env' = [env EXCEPT !.calls = @ \o <<EnvCall("reset", main.timestep),
                                                                         RaisedEnvCall(main.timestep)>>]
    /\ UNCHANGED <<self, proc, pipes, queues, barrier, mem, calls, obs, trace, sync, mixin>>

\* ------------------------------------- GaussianMixin (models/jax/gaussian.py)
\* GaussianMixin.__init__(clip_actions, clip_log_std, min_log_std, max_log_std,
\* reduction, role) and GaussianMixin.act.  A log-probability row is a sequence of
\* integers, one per action dimension.
RECURSIVE ProdSeq(_)
ProdSeq(s) == IF s = <<>> THEN 1 ELSE Head(s) * ProdSeq(Tail(s))

\* the rows are chosen with a sum that their length divides, so the mean is exact
LogProbRows == { <<-2, -4>>, <<-3, -1>>, <<-6, 0>> }

ReductionArgs == {"mean", "sum", "prod", "none", "max", "", "Sum", "None"}

GaussianArgs ==
    [ clip_actions : BOOLEAN, has_space : BOOLEAN, clip_log_std : BOOLEAN,
      min_log_std : {-20}, max_log_std : {2}, reduction : ReductionArgs ]

ValidReduction_any(reduction) == TRUE

\* reduction in ["mean", "sum", "prod", "none"]
ValidReduction(reduction) == reduction \in {"mean", "sum", "prod", "none"}

\* jnp.mean if reduction == "mean" else jnp.sum if reduction == "sum"
\*     else jnp.prod if reduction == "prod" else None
SelectReduction(reduction) ==
    IF reduction = "mean" THEN "jnp.mean"
    ELSE IF reduction = "sum" THEN "jnp.sum"
    ELSE IF reduction = "prod" THEN "jnp.prod"
    ELSE "None"

\* the attributes __init__ sets before it looks at the reduction
GaussianAttributes(a) ==
    LET clip == a.clip_actions /\ a.has_space
    IN [ clip_actions     |-> clip,
         clip_actions_min |-> IF clip THEN "low" ELSE "-inf",
         clip_actions_max |-> IF clip THEN "high" ELSE "inf",
         clip_log_std     |-> a.clip_log_std,
         log_std_min      |-> IF a.clip_log_std THEN <<"value", a.min_log_std>> ELSE <<"-inf", 0>>,
         log_std_max      |-> IF a.clip_log_std THEN <<"value", a.max_log_std>> ELSE <<"inf", 0>> ]

\* GaussianMixin.__init__
GaussianMixin_init(a) ==
    IF ~ValidReduction(a.reduction)
    THEN [pc |-> "raised", args |-> a, error |-> "ValueError", attributes |-> GaussianAttributes(a),
          reduction |-> "unset", i |-> 0, log_prob |-> <<>>, row |-> <<>>]
    ELSE [pc |-> "constructed", args |-> a, error |-> "none", attributes |-> GaussianAttributes(a),
          reduction |-> SelectReduction(a.reduction), i |-> 0, log_prob |-> <<>>, row |-> <<>>]

\* in _gaussian: if reduction is not None: log_prob = reduction(log_prob, axis=-1);
\* if log_prob.ndim != actions.ndim: log_prob = jnp.expand_dims(log_prob, -1)
ReduceLogProb(fn, row) ==
    IF fn = "None" THEN row
    ELSE IF fn = "jnp.mean" THEN <<SumSeq(row) \div Len(row)>>
    ELSE IF fn = "jnp.sum" THEN <<SumSeq(row)>>
    ELSE <<ProdSeq(row)>>

MaxActs == 2

TrainerUnchanged == UNCHANGED <<self, main, proc, pipes, queues, barrier, mem, env, calls, obs, trace, sync>>

\* model = Policy(...): the constructor runs
GaussianConstruct ==
    /\ mixin.pc = "new"
    /\ mixin' = GaussianMixin_init(mixin.args)
    /\ TrainerUnchanged

\* model.act(inputs): self._i += 1, then the log-probability of one sample is reduced
GaussianAct ==
    /\ mixin.pc = "constructed"
    /\ mixin.i < MaxActs
    /\ \E row \in LogProbRows :
         mixin' = [mixin EXCEPT !.i = @ + 1, !.row = row,
                                !.log_prob = ReduceLogProb(mixin.reduction, row)]
    /\ TrainerUnchanged

\* ------------------------------------------------------------ specification
Coordinator ==
    \/ \E md \in Modes : SingleAgent(md)
    \/ \E md \in Modes : Bootstrap(md)
    \/ CreateChannels
    \/ Spawn
    \/ MainBarrierEnter
    \/ MainBarrierExit
    \/ InitSend
    \/ InitPut
    \/ ResetEnv
    \/ PreSend
    \/ ActSend
    \/ ActPut
    \/ Gather
    \/ Step
    \/ RecordSend
    \/ RecordPut
    \/ PostSend
    \/ ResetEnvs
    \/ TerminateSend
    \/ Join
    \/ Close

Worker(w) ==
    \/ WorkerBarrierEnter(w)
    \/ WorkerBarrierExit(w)
    \/ Recv(w)
    \/ WorkerInit(w)
    \/ WorkerPre(w)
    \/ WorkerAct(w)
    \/ WorkerActPut(w)
    \/ WorkerRecordGet(w)
    \/ WorkerRecord(w)
    \/ WorkerPost(w)

Next == Coordinator \/ \E w \in Workers : Worker(w)

Spec == Init /\ [][Next]_vars

\* The runs checked for progress: short ones, under a scheduler that runs every
\* process that can take a step.
MaxFairTimesteps == 1

FairInit == Init /\ self.timesteps <= MaxFairTimesteps /\ self.initial_timestep = 0 /\ self.headless

FairSpec == FairInit /\ [][Next]_vars /\ WF_vars(Coordinator) /\ \A w \in Workers : WF_vars(Worker(w))

\* The same processes where an Agent call or an Environment call may raise.
FaultNext == Next \/ (\E w \in Workers : WorkerFault(w)) \/ EnvFault

FaultSpec == Init /\ [][FaultNext]_vars

\* Faults are possible but never forced; every live process keeps being scheduled.
FairFaultSpec ==
    FairInit /\ [][FaultNext]_vars /\ WF_vars(Coordinator) /\ \A w \in Workers : WF_vars(Worker(w))

\* A GaussianMixin is constructed from each combination of arguments and used;
\* no trainer runs.
GaussianInit ==
    /\ self = [agents |-> <<>>, scope_arg |-> <<>>, agents_scope |-> <<>>,
               timesteps |-> 0, initial_timestep |-> 0, headless |-> TRUE]
    /\ main = [pc |-> "unused", mode |-> "none", i |-> 1, j |-> 1, ret |-> "none", timestep |-> 0,
               states |-> 0, actions |-> NoTensor, got |-> <<>>,
               next_states |-> NoTensor, rewards |-> NoTensor, dones |-> NoTensor, infos |-> 0]
    /\ proc = [w \in Workers |-> [pc |-> "none", msg |-> NoMsg, agent |-> NoAgent,
                                  w_states |-> NoView, w_actions |-> NoTensor, args |-> <<>>]]
    /\ pipes = <<>>
    /\ queues = <<>>
    /\ barrier = [parties |-> 0, count |-> 0, state |-> 0]
    /\ mem = <<>>
    /\ env = [cur |-> NoTensor, calls |-> <<>>]
    /\ calls = [a \in Workers |-> <<>>]
    /\ obs = [w \in Workers |-> <<>>]
    /\ trace = <<>>
    /\ sync = [entered |-> [p \in 0..MaxAgents |-> 0], left |-> [p \in 0..MaxAgents |-> 0], gen |-> 0]
    /\ mixin \in { [pc |-> "new", args |-> a] : a \in GaussianArgs }

GaussianNext == GaussianConstruct \/ GaussianAct

GaussianSpec == GaussianInit /\ [][GaussianNext]_vars

\* ------------------------------------------------------------------ claims
IsPrefix(s, t) == Len(s) <= Len(t) /\ \A k \in 1..Len(s) : s[k] = t[k]

MultiWorker == Len(self.agents) > 1 /\ main.mode # "none"

Participants == {COORD} \cup Active

\* the timesteps of the run, in order
Timesteps == [k \in 1..RangeLen |-> self.initial_timestep + k - 1]

\* the commands the protocol gives one worker in a training run
TrainCommands ==
    <<Msg("init", 0)>>
    \o Flatten([k \in 1..RangeLen |->
                  << Msg("pre_interaction", Timesteps[k]), Msg("act", Timesteps[k]),
                     Msg("record_transition", Timesteps[k]), Msg("post_interaction", Timesteps[k]) >>])
    \o <<Msg("terminate", 0)>>

\* the commands the protocol gives one worker in an evaluation run
EvalCommands ==
    <<Msg("init", 0)>>
    \o Flatten([k \in 1..RangeLen |->
                  << Msg("act", Timesteps[k]),
                     Msg("eval-record_transition-post_interaction", Timesteps[k]) >>])
    \o <<Msg("terminate", 0)>>

\* what has been sent to worker w so far: what it received, then what is in its pipe
Sent(w) == IF pipes = <<>> THEN <<>> ELSE obs[w] \o pipes[w]

HasCall(w, m, t) == \E k \in 1..Len(calls[w]) : calls[w][k].m = m /\ calls[w][k].timestep = t /\ calls[w][k].by = w

\* C1: in a multi-worker training run every worker observes, timestep by timestep,
\* PRE_INTERACTION, ACT, RECORD_TRANSITION, POST_INTERACTION in that order (its
\* command log is a prefix of the protocol's sequence), and when it observes a
\* command its handling of every earlier command is complete: the agent call was
\* made and the barrier was passed; in particular POST_INTERACTION of t is complete
\* before ACT of t+1 is observed.
C1_PhaseOrder ==
    (MultiWorker /\ main.mode = "train") =>
        \A w \in Active :
            /\ IsPrefix(obs[w], TrainCommands)
            /\ Len(obs[w]) <= sync.left[w]
            /\ \A k \in 1..Len(obs[w]) :
                  LET c == obs[w][k]
                  IN /\ (c.task = "record_transition" => HasCall(w, "act", c.timestep))
                     /\ (c.task = "act" /\ c.timestep > self.initial_timestep
                            => HasCall(w, "post_interaction", c.timestep - 1))

C1_Witness ==
    /\ MultiWorker /\ main.mode = "train"
    /\ \E w \in Active : \E k \in 1..Len(obs[w]) :
          obs[w][k].task = "act" /\ obs[w][k].timestep = self.initial_timestep + 1

\* C2: phases are lock-step.  The k-th command a worker receives belongs to phase k
\* (k = 1 is INIT) and phase k - 1 ends with barrier generation k (generation 1 is
\* the start-up rendezvous).  No worker receives its k-th command before all
\* num_agents + 1 participants have arrived at generation k and that generation has
\* been released, so that the barrier no longer holds any of them back.
C2_LockStep ==
    MultiWorker =>
        \A w \in Active :
            /\ sync.gen >= Len(obs[w])
            /\ \A p \in Participants : sync.entered[p] >= Len(obs[w])

C2_Witness ==
    /\ MultiWorker
    /\ \E w \in Active, v \in Active :
          /\ Len(obs[w]) >= 3
          /\ proc[v].pc = "barrier_wait"
          /\ sync.left[v] < Len(obs[w])

EnvCount(op) == Cardinality({k \in 1..Len(env.calls) : env.calls[k].op = op})

AllExited == \A w \in Active : proc[w].pc = "exited"

\* the coordinator has sent TERMINATE to every worker
TerminateSentAll == MultiWorker /\ main.pc \in {"join", "close", "done"}

\* C3: once TERMINATE has been sent to all workers, every worker eventually leaves
\* its dispatch loop, the join of all workers completes and the run ends with
\* Environment.close() called exactly once; close() is never called twice and, in a
\* multi-worker run, never before all workers have exited.
C3_Termination ==
    /\ TerminateSentAll ~> (AllExited /\ main.pc = "done" /\ EnvCount("close") = 1)
    /\ [](EnvCount("close") <= 1)
    /\ []((MultiWorker /\ EnvCount("close") >= 1) => AllExited)
    /\ []((MultiWorker /\ main.pc \in {"close", "done"}) => AllExited)

C3_Witness ==
    /\ MultiWorker
    /\ main.pc = "done"
    /\ AllExited
    /\ EnvCount("close") = 1
    /\ \A w \in Active : obs[w] # <<>> /\ obs[w][Len(obs[w])].task = "terminate"

\* the worker that owns row r (0-based) of the batch
OwnerOf(r) == CHOOSE w \in Active : self.agents_scope[w][1] <= r /\ r < self.agents_scope[w][2]

ScopeSize(w) == self.agents_scope[w][2] - self.agents_scope[w][1]

\* C4: at every timestep the states slice a worker acts on and the action slice it
\* returns have exactly scope.end - scope.start rows and are the rows of its own
\* scope, and the actions tensor the coordinator assembles has one row per
\* environment, the rows of scope i being the ones worker i's agent produced.
C4_ScopeSlices ==
    MultiWorker =>
        /\ \A w \in Active : \A k \in 1..Len(calls[w]) :
              LET c == calls[w][k]
              IN c.m = "act" =>
                    /\ Len(c.args.states) = ScopeSize(w)
                    /\ Len(c.args.actions) = ScopeSize(w)
                    /\ \A e \in 1..Len(trace) :
                          trace[e].timestep = c.timestep =>
                              /\ c.args.states = Slice(trace[e].states, self.agents_scope[w])
                              /\ c.args.actions = Slice(trace[e].actions, self.agents_scope[w])
        /\ \A e \in 1..Len(trace) :
              /\ Len(trace[e].actions) = NumEnvs
              /\ \A r \in 0..(NumEnvs - 1) :
                    trace[e].actions[r + 1] =
                        (trace[e].states[r + 1] + self.agents[OwnerOf(r)].policy) % ValueMod

C4_Witness ==
    /\ MultiWorker
    /\ Len(trace) >= 2
    /\ \E w, v \in Active : ScopeSize(w) # ScopeSize(v) /\ self.agents[w].policy # self.agents[v].policy

\* no process, channel or barrier exists and no command was sent or received
NoApparatus ==
    /\ pipes = <<>>
    /\ queues = <<>>
    /\ barrier.parties = 0
    /\ \A w \in Workers : proc[w].pc = "none" /\ obs[w] = <<>>

\* the scope table as given: one range per count, laid out from row 0
GivenRanges == ScopeRanges(self.scope_arg)

RowCover(r) == {i \in 1..Len(GivenRanges) : GivenRanges[i][1] <= r /\ r < GivenRanges[i][2]}

ScopeTableInvalid ==
    \/ Len(self.scope_arg) # Len(self.agents)
    \/ \E r \in 0..(NumEnvs - 1) : Cardinality(RowCover(r)) # 1
    \/ \E i \in 1..Len(GivenRanges) : GivenRanges[i][2] > NumEnvs

ResetsAt(t) == Cardinality({k \in 1..Len(env.calls) : env.calls[k] = EnvCall("reset", t)})

\* the states tensor (which buffer, and its rows) after timestep entry e of the trace
StatesAfter(e) ==
    IF e < Len(trace)
    THEN [ref |-> trace[e + 1].ref, val |-> trace[e + 1].states]
    ELSE [ref |-> main.states, val |-> mem[main.states]]

SomeDone(dones) == \E i \in 1..Len(dones) : dones[i] = TRUE

\* C6: in a multi-worker run the coordinator calls Environment.reset() at the end of
\* a timestep, and replaces states by the new tensor, exactly when some element of
\* that timestep's dones is true; otherwise it makes no reset call and the same
\* states tensor holds next_states.  So the timesteps with a reset call are exactly
\* the timesteps with a true done, one call each.
C6_ResetIffDone ==
    MultiWorker =>
        \A e \in 1..Len(trace) :
            LET x == trace[e]
                finished == main.timestep > x.timestep
            IN /\ ResetsAt(x.timestep) = (IF finished /\ SomeDone(x.dones) THEN 1 ELSE 0)
               /\ finished =>
                    IF SomeDone(x.dones)
                    THEN StatesAfter(e).ref # x.ref /\ StatesAfter(e).val = EnvReset
                    ELSE StatesAfter(e).ref = x.ref /\ StatesAfter(e).val = x.next_states

C6_Witness ==
    /\ MultiWorker
    /\ main.pc = "done"
    /\ \E e, f \in 1..Len(trace) :
          /\ SomeDone(trace[e].dones) /\ ~(\A i \in 1..NumEnvs : trace[e].dones[i])
          /\ ResetsAt(trace[e].timestep) = 1
          /\ ~SomeDone(trace[f].dones)
          /\ ResetsAt(trace[f].timestep) = 0

EvalRecordTask == "eval-record_transition-post_interaction"

\* C7: in a multi-worker evaluation run the commands sent to a worker are INIT, then
\* per timestep ACT and EVAL_RECORD_AND_POST, then TERMINATE, so no PRE_INTERACTION,
\* RECORD_TRANSITION or POST_INTERACTION is ever sent; in a training run no
\* EVAL_RECORD_AND_POST is ever sent.
C7_EvalCommands ==
    MultiWorker =>
        \A w \in Active :
            /\ main.mode = "eval" => IsPrefix(Sent(w), EvalCommands)
            /\ main.mode = "train" => \A k \in 1..Len(Sent(w)) : Sent(w)[k].task # EvalRecordTask

C7_Witness ==
    /\ MultiWorker /\ main.mode = "eval"
    /\ \E w \in Active : \E k \in 1..Len(obs[w]) :
          obs[w][k].task = "act" /\ obs[w][k].timestep = self.initial_timestep + 1

\* C8: in an evaluation run a worker never calls pre_interaction, and every
\* record_transition / post_interaction it calls is the non-learning one of the
\* Agent base class, record_transition first and post_interaction right after it.
C8_EvalNonLearning ==
    (MultiWorker /\ main.mode = "eval") =>
        \A w \in Active : \A k \in 1..Len(calls[w]) :
            LET c == calls[w][k]
            IN /\ c.m # "pre_interaction"
               /\ c.m \in {"record_transition", "post_interaction"} => c.impl = "Agent"
               /\ c.m = "post_interaction" =>
                     k > 1 /\ calls[w][k - 1].m = "record_transition"
                           /\ calls[w][k - 1].timestep = c.timestep
               /\ (c.m = "record_transition" /\ k = Len(calls[w])) => proc[w].pc # "barrier"

\* the methods called on the one agent by the sequential path, in order
SequentialMethods(md) ==
    <<"init">> \o Flatten([k \in 1..RangeLen |->
                             IF md = "train"
                             THEN <<"pre_interaction", "act", "record_transition", "post_interaction">>
                             ELSE <<"act", "record_transition", "post_interaction">>])

\* C9: with exactly one agent, train and eval create no worker process, channel or
\* barrier and send no command, and the whole phase sequence is run by the
\* coordinator process itself, on that agent, in order.
C9_SingleAgent ==
    Len(self.agents) = 1 =>
        /\ NoApparatus
        /\ sync.gen = 0
        /\ main.pc \in {"idle", "done"}
        /\ main.pc = "done" =>
              /\ Len(calls[1]) = Len(SequentialMethods(main.mode))
              /\ \A k \in 1..Len(calls[1]) :
                    calls[1][k].by = COORD /\ calls[1][k].m = SequentialMethods(main.mode)[k]

C9_Witness ==
    /\ Len(self.agents) = 1
    /\ main.pc = "done"
    /\ main.mode = "train"
    /\ Len(trace) >= 2

SameAgents == \A w \in Active : self.agents[w] = self.agents[1]

StatesActionsRewards(tr) == [k \in 1..Len(tr) |-> <<tr[k].states, tr[k].actions, tr[k].rewards>>]

DonesOf(tr) == [k \in 1..Len(tr) |-> tr[k].dones]

\* C10: with the same deterministic agent in every worker, the sequence of (states,
\* actions, rewards) of a multi-worker run is, at every point of every interleaving,
\* the sequence the single-agent sequential path produces with that agent on the
\* same environment stub (the same dones at every step).
C10_SameAsSequential ==
    (MultiWorker /\ SameAgents) =>
        StatesActionsRewards(trace) =
            StatesActionsRewards(single_agent_run(self.agents[1], main.mode, DonesOf(trace)).trace)

C10_Witness ==
    /\ MultiWorker /\ SameAgents
    /\ main.pc = "done"
    /\ Len(trace) >= 2
    /\ trace[1].states # trace[2].states
    /\ \E r \in 1..NumEnvs : trace[1].states[r] # trace[1].states[NumEnvs]

\* the worker process ended on an exception raised by an Agent call
Died(w) == \E k \in 1..Len(calls[w]) : calls[w][k].m = "raise"

SomeDied == \E w \in Workers : Died(w)

\* the command a worker was handling when it received nothing more
CurrentCommand(w) == obs[w][Len(obs[w])]

\* the coordinator and every worker still alive are suspended in barrier.wait()
StalledAtBarrier ==
    /\ main.pc = "barrier_wait"
    /\ \A w \in Active : Died(w) \/ proc[w].pc = "barrier_wait"

NoErrorReported == main.pc \notin {"raised", "config_error", "done"}

\* a step in which some worker is sent a command
Sends(v) == Len(pipes'[v]) > Len(pipes[v])

SentCommand(v) == pipes'[v][Len(pipes'[v])]

\* C11 (amended): once a worker has died in an Agent call, before the barrier of
\* its phase, the coordinator and every remaining worker end up suspended in
\* barrier.wait() and stay there forever; no error is reported, the Environment is
\* never called again (no step, no reset, no close), and the only commands still
\* sent are the ones of the phase the worker died in, to the workers the
\* coordinator had not reached yet: no command of a later phase and no TERMINATE.
C11_WorkerDeath ==
    /\ SomeDied ~> []StalledAtBarrier
    /\ [](SomeDied => NoErrorReported)
    /\ [][SomeDied =>
            /\ env' = env
            /\ \A v \in Active : Sends(v) =>
                  \A d \in Active : Died(d) =>
                      /\ SentCommand(v).task = CurrentCommand(d).task
                      /\ SentCommand(v).timestep = CurrentCommand(d).timestep
                      /\ SentCommand(v).task # "terminate"]_vars

C11_Witness ==
    /\ main.pc = "barrier_wait"
    /\ \E d, v \in Active :
          /\ Died(d) /\ ~Died(v)
          /\ Len(obs[d]) >= 3
          /\ proc[v].pc = "barrier_wait"
          /\ Len(obs[v]) = Len(obs[d])

\* C11 as stated: once a worker has died in an Agent call, no command at all is
\* sent any more (and no Environment call is made, and no error is reported).
C11_NoFurtherCommand ==
    /\ [](SomeDied => NoErrorReported)
    /\ [][SomeDied => (env' = env /\ \A v \in Active : ~Sends(v))]_vars

\* an Environment call has raised
EnvRaised == \E k \in 1..Len(env.calls) : env.calls[k].op = "raise"

\* the Environment call that raised: the one logged right before the exception
FailedEnvCall == env.calls[Len(env.calls) - 1]

TimesCalled(c) == Cardinality({k \in 1..Len(env.calls) : env.calls[k] = c})

\* C12: when Environment.step or Environment.reset raises, the exception leaves
\* train / eval and the run is over: the failing call is the last Environment call
\* ever made and was made once (no retry), and from then on the coordinator takes
\* no step at all, so it sends no command, puts no data on a queue and never
\* calls Environment.step (or any other Environment method) again.
C12_EnvFault ==
    /\ [](EnvRaised =>
            /\ main.pc = "raised"
            /\ env.calls[Len(env.calls)].op = "raise"
            /\ FailedEnvCall.op \in {"step", "reset"}
            /\ FailedEnvCall.op = main.ret
            /\ TimesCalled(FailedEnvCall) = 1
            /\ TimesCalled(env.calls[Len(env.calls)]) = 1)
    /\ [][EnvRaised =>
            /\ main' = main
            /\ env' = env
            /\ \A v \in Active : ~Sends(v) /\ Len(queues'[v]) <= Len(queues[v])]_vars

C12_Witness ==
    /\ main.pc = "raised"
    /\ main.ret = "step"
    /\ Len(trace) >= 1
    /\ FailedEnvCall = EnvCall("step", self.initial_timestep + 1)
    /\ \E w \in Active : proc[w].pc = "recv" /\ HasCall(w, "act", self.initial_timestep + 1)

\* the state of the worker state machine a command puts the worker in
PhaseOf(task) ==
    CASE task = "init" -> "INITIALIZING"
      [] task = "pre_interaction" -> "PRE_INTERACTION"
      [] task = "act" -> "ACTING"
      [] task = "record_transition" -> "RECORDING"
      [] task = "eval-record_transition-post_interaction" -> "RECORDING"
      [] task = "post_interaction" -> "POST_INTERACTING"
      [] OTHER -> "TERMINATED"

\* the state of worker w: in a phase from the receipt of its command until the
\* worker is back at pipe.recv()
WorkerState(w) ==
    CASE proc[w].pc = "none" -> "NOT_STARTED"
      [] proc[w].pc = "exited" -> "TERMINATED"
      [] obs[w] = <<>> -> "IDLE"
      [] proc[w].pc = "recv" -> "READY"
      [] OTHER -> PhaseOf(obs[w][Len(obs[w])].task)

Phases == {"PRE_INTERACTION", "ACTING", "RECORDING", "POST_INTERACTING"}

WorkerTransitions ==
    { <<"NOT_STARTED", "IDLE">>, <<"IDLE", "INITIALIZING">>, <<"INITIALIZING", "READY">>,
      <<"READY", "TERMINATED">> }
    \cup { <<"READY", ph>> : ph \in Phases }
    \cup { <<ph, "READY">> : ph \in Phases }

\* C13: every worker follows IDLE -> INITIALIZING -> READY -> {phase} -> READY -> ...
\* -> TERMINATED and takes no other transition: INIT is the first command it
\* receives and the only one that takes it out of IDLE, it is TERMINATED only with
\* TERMINATE as its last command, and it is READY (where every other command is
\* received) only with its agent initialized and with the barrier of every
\* command received so far passed.
C13_WorkerStateMachine ==
    /\ [][\A w \in Workers :
            WorkerState(w)' # WorkerState(w) =>
                /\ <<WorkerState(w), WorkerState(w)'>> \in WorkerTransitions
                /\ WorkerState(w) \in {"IDLE", "READY"} =>
                      /\ Len(obs'[w]) = Len(obs[w]) + 1
                      /\ WorkerState(w)' = PhaseOf(obs'[w][Len(obs'[w])].task)
                /\ WorkerState(w) \notin {"IDLE", "READY"} => obs'[w] = obs[w]]_vars
    /\ [](\A w \in Workers :
            /\ \A k \in 1..Len(obs[w]) : (obs[w][k].task = "init") <=> (k = 1)
            /\ \A k \in 1..Len(obs[w]) : (obs[w][k].task = "terminate") =>
                  (k = Len(obs[w]) /\ proc[w].pc = "exited")
            /\ WorkerState(w) = "TERMINATED" => obs[w][Len(obs[w])].task = "terminate"
            /\ WorkerState(w) = "READY" =>
                  /\ proc[w].agent = self.agents[w]
                  /\ HasCall(w, "init", -1)
                  /\ sync.left[w] = Len(obs[w]) + 1
            /\ WorkerState(w) \in Phases =>
                  /\ proc[w].agent = self.agents[w]
                  /\ sync.left[w] = Len(obs[w]))

C13_Witness ==
    \E w, v \in Active :
        /\ WorkerState(w) = "TERMINATED"
        /\ Len(obs[w]) >= 6
        /\ WorkerState(v) = "READY"

\* the Agent instances travelling to worker w
AgentsInFlight(w) ==
    IF queues = <<>> THEN {}
    ELSE {k \in 1..Len(queues[w]) : queues[w][k].what = "agent"}

\* how many times an Agent instance has been handed to worker w so far
Handoffs(w) == Cardinality(AgentsInFlight(w)) + (IF proc[w].agent = NoAgent THEN 0 ELSE 1)

AgentMethods == {"init", "pre_interaction", "act", "record_transition", "post_interaction"}

\* C14: in a multi-worker run agent i is put on queue i once, after INIT was sent
\* to worker i, and worker i holds agent i and no other; every call on agent i is
\* made by worker i, and act is called on the rows of scope i; a step that calls an
\* agent is a step of that worker and not of the coordinator, and a step that
\* calls the Environment is not a step of any worker.
C14_Ownership ==
    /\ [](MultiWorker =>
            \A w \in Active :
                /\ Handoffs(w) <= 1
                /\ \A k \in AgentsInFlight(w) :
                      /\ queues[w][k].val = self.agents[w]
                      /\ queues[w][k].by = COORD
                      /\ Sent(w) # <<>> /\ Sent(w)[1].task = "init"
                /\ proc[w].agent \in {NoAgent, self.agents[w]}
                /\ (main.pc \notin {"idle", "config_error", "create", "spawn"} /\ sync.gen >= 2)
                      => Handoffs(w) = 1
                /\ \A k \in 1..Len(calls[w]) :
                      LET c == calls[w][k]
                      IN /\ c.by = w
                         /\ c.m \in AgentMethods
                         /\ c.m = "act" =>
                               /\ Len(c.args.states) = ScopeSize(w)
                               /\ c.args.actions = AgentAct(self.agents[w], c.args.states)
                               /\ \A e \in 1..Len(trace) : trace[e].timestep = c.timestep =>
                                     c.args.states = Slice(trace[e].states, self.agents_scope[w]))
    /\ [][MultiWorker =>
            /\ calls' # calls =>
                  /\ main' = main
                  /\ \E w \in Active :
                        /\ proc'[w] # proc[w]
                        /\ \A v \in Workers \ {w} : calls'[v] = calls[v] /\ proc'[v] = proc[v]
            /\ env' # env => proc' = proc /\ main' # main]_vars

C14_Witness ==
    /\ MultiWorker
    /\ main.pc = "done"
    /\ \A w \in Active : Len(calls[w]) >= 5 /\ Handoffs(w) = 1
    /\ \E w, v \in Active : self.agents[w] # self.agents[v] /\ ScopeSize(w) # ScopeSize(v)

\* the barrier.wait() calls worker w has made by now: one at start-up and one
\* per command handled (TERMINATE has none)
WaitsDue(w) ==
    IF proc[w].pc = "exited" THEN {Len(obs[w])}
    ELSE IF proc[w].pc \in {"barrier_wait", "recv"} THEN {Len(obs[w]) + 1}
    ELSE {Len(obs[w])}

\* C15: the barrier of a multi-worker run has num_agents + 1 parties, the
\* coordinator and the workers, and stays the same object for the whole run.  Every
\* participant waits on it once at start-up and once per phase (a worker: once per
\* command it handles), one wait at a time; a participant gets past generation g
\* only after g has been released, which happens only when all num_agents + 1 have
\* arrived at g; so no two participants are ever more than one wait apart.
C15_Barrier ==
    /\ [](MultiWorker /\ barrier.parties # 0 =>
            /\ barrier.parties = Len(self.agents) + 1
            /\ barrier.parties = Cardinality(Participants)
            /\ barrier.count < barrier.parties
            /\ \A p \in Participants :
                  /\ sync.left[p] <= sync.entered[p]
                  /\ sync.entered[p] <= sync.left[p] + 1
                  /\ sync.left[p] <= sync.gen
                  /\ sync.gen <= sync.entered[p]
                  /\ \A q \in Participants :
                        /\ sync.left[p] <= sync.entered[q]
                        /\ sync.entered[p] <= sync.entered[q] + 1
            /\ \E p \in Participants : sync.entered[p] = sync.gen
            /\ \A w \in Active : sync.entered[w] \in WaitsDue(w))
    /\ [][barrier.parties # 0 => barrier.parties' = barrier.parties]_vars

C15_Witness ==
    /\ MultiWorker
    /\ sync.gen >= 4
    /\ \E p, q \in Participants :
          /\ sync.entered[p] = sync.gen + 1
          /\ sync.entered[q] = sync.gen
          /\ sync.left[q] = sync.gen

\* the reduction of a row the way each name asks for it
ExpectedLogProb(name, row) ==
    CASE name = "mean" -> <<SumSeq(row) \div Len(row)>>
      [] name = "sum"  -> <<row[1] + row[2]>>
      [] name = "prod" -> <<row[1] * row[2]>>
      [] OTHER -> row

\* C16: constructing a GaussianMixin raises ValueError exactly when reduction is
\* not one of "mean", "sum", "prod", "none"; with one of the four the object is
\* constructed with the matching reduction (jnp.mean, jnp.sum, jnp.prod, and no
\* reduction for "none"), and act reduces the log-probability with it.
C16_Reduction ==
    mixin.pc \in {"raised", "constructed"} =>
        /\ (mixin.pc = "raised") <=> (mixin.args.reduction \notin {"mean", "sum", "prod", "none"})
        /\ mixin.pc = "raised" => mixin.error = "ValueError"
        /\ mixin.pc = "constructed" =>
              /\ mixin.error = "none"
              /\ mixin.args.reduction = "mean" => mixin.reduction = "jnp.mean"
              /\ mixin.args.reduction = "sum" => mixin.reduction = "jnp.sum"
              /\ mixin.args.reduction = "prod" => mixin.reduction = "jnp.prod"
              /\ mixin.args.reduction = "none" => mixin.reduction = "None"
              /\ mixin.i > 0 => mixin.log_prob = ExpectedLogProb(mixin.args.reduction, mixin.row)

C16_Witness ==
    /\ mixin.pc = "raised"
    /\ mixin.args.reduction = "Sum"
    /\ mixin.error = "ValueError"

StepsAt(t) == Cardinality({k \in 1..Len(env.calls) : env.calls[k] = EnvCall("step", t)})

PhasesPerTimestep == IF main.mode = "train" THEN 4 ELSE 2

\* the barrier generation that ends the ACT phase of timestep t: after start-up,
\* INIT and the phases of the earlier timesteps (and PRE_INTERACTION of t in training)
ActGeneration(t) ==
    2 + PhasesPerTimestep * (t - self.initial_timestep) + (IF main.mode = "train" THEN 2 ELSE 1)

\* the actions worker w's agent returned for timestep t
ActionsOf(w, t) ==
    LET k == CHOOSE k \in 1..Len(calls[w]) : calls[w][k].m = "act" /\ calls[w][k].timestep = t
    IN calls[w][k].args.actions

IsRecordTask(task) == task \in {"record_transition", "eval-record_transition-post_interaction"}

\* C17: in a multi-worker run (train or eval) Environment.step is called at most
\* once for a timestep and exactly once for every timestep that is over, only for
\* timesteps of the range, in a step of the coordinator; when it has been called
\* for t, every worker's agent has returned its actions for t, the ACT barrier of t
\* has been released and left by the coordinator, and the actions stepped are the
\* workers' slices in worker order; and no recording command of t is sent (so none
\* is received) before step was called for t.
C17_StepOncePerTimestep ==
    /\ [](MultiWorker =>
            /\ \A k \in 1..Len(env.calls) :
                  env.calls[k].op = "step" =>
                      /\ env.calls[k].timestep >= self.initial_timestep
                      /\ env.calls[k].timestep < self.timesteps
                      /\ env.calls[k].timestep <= main.timestep
            /\ \A t \in self.initial_timestep..(self.timesteps - 1) :
                  /\ StepsAt(t) <= 1
                  /\ main.timestep > t => StepsAt(t) = 1
                  /\ main.pc = "done" => StepsAt(t) = 1
                  /\ StepsAt(t) = 1 =>
                        /\ \A w \in Active : HasCall(w, "act", t)
                        /\ sync.gen >= ActGeneration(t)
                        /\ sync.left[COORD] >= ActGeneration(t)
                        /\ \A w \in Active : sync.entered[w] >= ActGeneration(t)
                        /\ \E e \in 1..Len(trace) :
                              /\ trace[e].timestep = t
                              /\ trace[e].actions = Flatten([w \in 1..Len(self.agents) |-> ActionsOf(w, t)])
                  /\ \A w \in Active : \A k \in 1..Len(Sent(w)) :
                        (IsRecordTask(Sent(w)[k].task) /\ Sent(w)[k].timestep = t) => StepsAt(t) = 1)
    /\ [][MultiWorker /\ env.calls' # env.calls => (main' # main /\ proc' = proc)]_vars

C17_Witness ==
    /\ MultiWorker
    /\ main.mode = "eval"
    /\ StepsAt(self.initial_timestep) = 1
    /\ StepsAt(self.initial_timestep + 1) = 1
    /\ main.timestep = self.initial_timestep + 1
    /\ \E w \in Active : \A k \in 1..Len(Sent(w)) :
          ~(IsRecordTask(Sent(w)[k].task) /\ Sent(w)[k].timestep = main.timestep)

\* the act call worker w made for timestep t
ActCall(w, t) ==
    calls[w][CHOOSE k \in 1..Len(calls[w]) : calls[w][k].m = "act" /\ calls[w][k].timestep = t]

\* the trace entry of timestep t: what was sent with ACT and what Environment.step returned
StepOf(t) == trace[CHOOSE e \in 1..Len(trace) : trace[e].timestep = t]

\* C18: every record_transition call a worker makes for timestep t (on
\* RECORD_TRANSITION or on EVAL_RECORD_AND_POST) gets as states the rows of the
\* worker's scope of the states sent with ACT of t, exactly the rows its act call
\* saw, as actions exactly what that act call returned, as rewards, next_states and
\* dones the rows of its scope of what Environment.step returned for t, and as
\* infos the infos of that step.
C18_RecordArguments ==
    MultiWorker =>
        \A w \in Active : \A k \in 1..Len(calls[w]) :
            LET c == calls[w][k]
            IN c.m = "record_transition" =>
                  /\ HasCall(w, "act", c.timestep)
                  /\ \E e \in 1..Len(trace) : trace[e].timestep = c.timestep
                  /\ c.args.states = ActCall(w, c.timestep).args.states
                  /\ c.args.actions = ActCall(w, c.timestep).args.actions
                  /\ c.args.states = Slice(StepOf(c.timestep).states, self.agents_scope[w])
                  /\ c.args.actions = Slice(StepOf(c.timestep).actions, self.agents_scope[w])
                  /\ c.args.rewards = Slice(StepOf(c.timestep).rewards, self.agents_scope[w])
                  /\ c.args.next_states = Slice(StepOf(c.timestep).next_states, self.agents_scope[w])
                  /\ c.args.dones = Slice(StepOf(c.timestep).dones, self.agents_scope[w])
                  /\ c.args.infos = c.timestep
                  /\ Len(c.args.rewards) = ScopeSize(w)

C18_Witness ==
    /\ MultiWorker
    /\ \E w \in Active : \E k \in 1..Len(calls[w]) :
          LET c == calls[w][k]
          IN /\ c.m = "record_transition"
             /\ c.timestep = self.initial_timestep + 1
             /\ ScopeSize(w) = 2
             /\ self.agents_scope[w][1] > 0
             /\ c.args.states # c.args.next_states
             /\ c.args.dones = <<FALSE, TRUE>>

\* the last command of a timestep
LastTask == IF main.mode = "train" THEN "post_interaction" ELSE "eval-record_transition-post_interaction"

\* worker w has handled every command of timestep t and has nothing to do until
\* the next command is sent: its handlers are over (it is returning from the last
\* barrier.wait() or is back in pipe.recv()), and its pipe and its queue are empty
DoneWith(w, t) ==
    /\ proc[w].pc \in {"barrier_wait", "recv"}
    /\ pipes[w] = <<>>
    /\ queues[w] = <<>>
    /\ obs[w] # <<>>
    /\ CurrentCommand(w).task = LastTask
    /\ CurrentCommand(w).timestep = t
    /\ HasCall(w, "post_interaction", t)
    /\ sync.entered[w] = Len(obs[w]) + 1

\* the positions of fn_processor where the states tensor, or the cached view of
\* it, is read or is still going to be read for the current timestep
ReadsStates(w) ==
    \/ proc[w].pc \in {"act", "act_put", "record_transition", "eval_record"}
    \/ /\ obs[w] # <<>>
       /\ CurrentCommand(w).task = "act"
    \/ /\ pipes # <<>>
       /\ \E k \in 1..Len(pipes[w]) : pipes[w][k].task = "act" \/ IsRecordTask(pipes[w][k].task)

\* the coordinator is about to write the shared states tensor (states.copy_),
\* or to replace it (states = self.env.reset())
WritesStates == main.pc = "reset_envs"

\* C19: when the coordinator overwrites the shared states tensor in place, or
\* replaces it after a reset, every worker has handled all the commands of that
\* timestep and has nothing left to read, so no worker is at a point where states
\* or its cached view is read; shared memory is changed only by steps of the
\* coordinator at the reset at the start and at the end of a timestep, never by a
\* step of a worker.
C19_NoRaceOnStates ==
    /\ [](MultiWorker /\ WritesStates =>
            \A w \in Active : DoneWith(w, main.timestep) /\ ~ReadsStates(w))
    /\ [](MultiWorker => \A w \in Active : ReadsStates(w) => ~WritesStates)
    /\ [][MultiWorker /\ mem' # mem =>
            /\ main.pc \in {"reset", "reset_envs"}
            /\ main' # main
            /\ proc' = proc]_vars

C19_Witness ==
    /\ MultiWorker
    /\ WritesStates
    /\ ~NeedsReset(main.dones)
    /\ mem[main.states] # main.next_states
    /\ \E w, v \in Active :
          /\ proc[w].pc = "barrier_wait"
          /\ proc[v].pc = "recv"
          /\ proc[w].w_states.ref = main.states
          /\ View(proc[w].w_states) # Slice(main.next_states, proc[w].w_states.scope)

\* the blocking points: pipe.recv() and the queue.get() calls of a worker, the
\* queue.get() and process.join() of the coordinator, and barrier.wait()
WorkerBlockingPcs == {"recv", "init", "act", "record_transition", "eval_record", "barrier", "barrier_wait"}

MainBlockingPcs == {"gather", "join", "barrier", "barrier_wait"}

\* a fault-free multi-worker run with a valid scope table is under way
Running == MultiWorker /\ main.pc \notin {"config_error", "done"}

\* the barrier.wait() calls of one participant in a run of T timesteps
WaitsPerRun == 2 + PhasesPerTimestep * RangeLen

\* C20: without faults and under fair scheduling a multi-worker run never stays
\* at a blocking point for ever: every worker waiting in pipe.recv(), queue.get()
\* or barrier.wait() gets past it, and so does the coordinator in queue.get(),
\* barrier.wait() and join(); the coordinator sends TERMINATE to every worker and
\* the run ends; and at the end the coordinator and each worker have waited on
\* the barrier the same number of times, 2 + 4 * T in training and 2 + 2 * T in
\* evaluation, T being the number of timesteps executed.
C20_DeadlockFree ==
    /\ Running ~> TerminateSentAll
    /\ Running ~> (main.pc = "done" /\ AllExited)
    /\ \A pc \in MainBlockingPcs : (MultiWorker /\ main.pc = pc) ~> (main.pc # pc)
    /\ \A w \in Workers : \A pc \in WorkerBlockingPcs : (proc[w].pc = pc) ~> (proc[w].pc # pc)
    /\ [](MultiWorker /\ main.pc = "done" =>
            /\ Len(trace) = RangeLen
            /\ \A p \in Participants :
                  /\ sync.entered[p] = WaitsPerRun
                  /\ sync.left[p] = WaitsPerRun
            /\ sync.gen = WaitsPerRun
            /\ main.mode = "train" => sync.entered[COORD] = 2 + 4 * Len(trace)
            /\ main.mode = "eval" => sync.entered[COORD] = 2 + 2 * Len(trace))

C20_Witness ==
    /\ MultiWorker
    /\ main.pc = "done"
    /\ main.mode = "train"
    /\ Len(trace) >= 1
    /\ \A p \in Participants : sync.entered[p] = 2 + 4 * Len(trace)

\* a step in which an item is taken off worker w's data queue, and that item
Takes(w) ==
    /\ w \in DOMAIN queues /\ w \in DOMAIN queues'
    /\ Len(queues'[w]) < Len(queues[w])

Taken(w) == Head(queues[w])

PutBy(w) == {queues[w][k].by : k \in 1..Len(queues[w])}

\* what the coordinator put on worker w's queue for the command w is handling:
\* the agent for INIT, the states for ACT, and for the recording command the
\* rewards, next_states, dones and infos, in that order
PutForCommand(w) ==
    LET task == proc[w].msg.task
        n    == Len(proc[w].args)
    IN CASE task = "init" -> Item("agent", COORD, self.agents[w])
         [] task = "act" -> Item("states", COORD, main.states)
         [] IsRecordTask(task) /\ n = 0 -> Item("rewards", COORD, main.rewards)
         [] IsRecordTask(task) /\ n = 1 -> Item("next_states", COORD, main.next_states)
         [] IsRecordTask(task) /\ n = 2 -> Item("dones", COORD, main.dones)
         [] IsRecordTask(task) /\ n = 3 -> Item("infos", COORD, main.infos)
         [] OTHER -> Item("nothing", COORD, 0)

\* C21: on the bidirectional data queue of a worker nobody takes an item it put
\* itself. Whenever the coordinator takes an item from worker i's queue, it does so
\* in the gathering after the ACT barrier of the current timestep, the queue holds
\* nothing the coordinator put, and the item is worker i's actions of that
\* timestep; whenever a worker takes an item, it is handling INIT, ACT or the
\* recording command, the queue holds nothing the worker put, and the item is the
\* one the coordinator put for that command (the worker's agent, the current
\* states, or the next of rewards, next_states, dones, infos).
C21_NoSelfDequeue ==
    [][\A w \in Workers : Takes(w) =>
          /\ Len(queues'[w]) = Len(queues[w]) - 1
          /\ IF main' # main
             THEN /\ main.pc = "gather" /\ main.i = w
                  /\ sync.gen = ActGeneration(main.timestep)
                  /\ COORD \notin PutBy(w)
                  /\ Taken(w) = Item("actions", w, proc[w].w_actions)
                  /\ Taken(w).val = ActionsOf(w, main.timestep)
             ELSE /\ proc'[w] # proc[w]
                  /\ proc[w].msg.task \in {"init", "act"} \/ IsRecordTask(proc[w].msg.task)
                  /\ w \notin PutBy(w)
                  /\ Taken(w) = PutForCommand(w)
      ]_vars

\* in the second timestep the coordinator has taken worker 1's actions and worker
\* 2's are waiting on its queue, after both workers took their agent, their states
\* and the four recorded items of the first timestep
C21_Witness ==
    /\ MultiWorker
    /\ main.pc = "gather" /\ main.i = 2
    /\ Len(trace) = 1
    /\ main.got = <<proc[1].w_actions>>
    /\ queues[2] = <<Item("actions", 2, proc[2].w_actions)>>
    /\ \A w \in Active : HasCall(w, "record_transition", trace[1].timestep)

\* the number of data items that go with a command
ItemsDue(task) ==
    CASE task \in {"init", "act"} -> 1
      [] IsRecordTask(task) -> 4
      [] OTHER -> 0

ItemsDueAll(msgs) == SumSeq([k \in 1..Len(msgs) |-> ItemsDue(msgs[k].task)])

\* the items on worker w's queue that participant p put
CountBy(w, p) == Cardinality({k \in 1..Len(queues[w]) : queues[w][k].by = p})

\* what the coordinator has still to put for the command it sent last to worker w
Owed(w) ==
    IF main.i # w THEN 0
    ELSE CASE main.pc \in {"init_put", "act_put"} -> 1
           [] main.pc = "rec_put" -> 5 - main.j
           [] OTHER -> 0

\* what worker w has still to take for the command it is handling
Pending(w) ==
    CASE proc[w].pc \in {"init", "act"} -> 1
      [] proc[w].pc \in {"record_transition", "eval_record"} -> 4 - Len(proc[w].args)
      [] OTHER -> 0

\* the ACT commands whose actions worker w has put, and those the coordinator took
ActsPut(w) ==
    Cardinality({k \in 1..Len(obs[w]) : obs[w][k].task = "act"})
      - (IF proc[w].pc \in {"act", "act_put"} THEN 1 ELSE 0)

ActsTaken(w) ==
    Len(trace) + (IF main.pc = "step" \/ (main.pc = "gather" /\ main.i > w) THEN 1 ELSE 0)

\* every item is accounted for: on worker w's queue lie exactly the items the
\* coordinator put for the commands sent so far less those the worker took while
\* handling them, and the actions the worker put less those the coordinator took
ChannelBalance ==
    \A w \in DOMAIN queues :
        /\ CountBy(w, COORD) = (ItemsDueAll(Sent(w)) - Owed(w)) - (ItemsDueAll(obs[w]) - Pending(w))
        /\ CountBy(w, w) = ActsPut(w) - ActsTaken(w)
        /\ CountBy(w, w) \in {0, 1}
        /\ Len(queues[w]) = CountBy(w, COORD) + CountBy(w, w)

\* worker w has handled the command it received last: it is about to wait at the
\* barrier of that command, is waiting there for the generation to fill, or has exited
HandledCommand(w) ==
    \/ proc[w].pc \in {"barrier", "exited"}
    \/ proc[w].pc = "barrier_wait" /\ sync.entered[w] > sync.gen

\* generation g of the barrier is the one that ends an ACT phase
IsActGeneration(g) ==
    g > 2 /\ (g - 3) % PhasesPerTimestep = (IF main.mode = "train" THEN 1 ELSE 0)

\* C22: channel balance in a fault-free multi-worker run. The items on each data
\* queue are always the ones put for the commands sent (INIT 1, ACT 1, the two
\* recording commands 4, the others 0) less the ones the worker has taken for the
\* commands it received, plus at most one actions item per ACT not yet taken by
\* the coordinator; a worker that has handled a command and waits at its barrier
\* (or has exited) has taken all of its items; whenever a barrier generation completes, every data queue is
\* empty, except that at the ACT generation it holds exactly the worker's actions;
\* and when the run is over every command pipe and every data queue is empty.
C22_ChannelBalance ==
    [][/\ ChannelBalance'
       /\ \A w \in DOMAIN queues' : HandledCommand(w)' => CountBy(w, COORD)' = 0
       /\ sync'.gen # sync.gen =>
             \A w \in DOMAIN queues' :
                queues'[w] = IF IsActGeneration(sync'.gen)
                             THEN <<Item("actions", w, proc'[w].w_actions)>>
                             ELSE <<>>
       /\ main'.pc = "done" =>
             /\ \A w \in DOMAIN queues' : queues'[w] = <<>>
             /\ \A w \in DOMAIN pipes' : pipes'[w] = <<>>
      ]_vars

\* a training run of at least one timestep is over: each worker received INIT,
\* four commands per timestep and TERMINATE, took six items per timestep and one
\* for INIT, and nothing is left in a pipe or a queue
C22_Witness ==
    /\ MultiWorker
    /\ main.pc = "done" /\ main.mode = "train"
    /\ Len(trace) >= 1
    /\ \A w \in Active :
          /\ obs[w] = TrainCommands
          /\ ItemsDueAll(obs[w]) = 1 + 5 * Len(trace)
          /\ queues[w] = <<>> /\ pipes[w] = <<>>

\* range(initial_timestep, timesteps) has no element
EmptyRange == self.timesteps <= self.initial_timestep

InitThenTerminate == <<Msg("init", 0), Msg("terminate", 0)>>

ResetThenClose == <<EnvCall("reset", -1), EnvCall("close", -1)>>

\* C23: in a multi-worker train or eval run whose timestep range is empty, each
\* worker is sent INIT and then TERMINATE and nothing else, the only calls on the
\* Environment are one reset() and then one close(), step is never called and no
\* agent acts or records; TERMINATE is sent only after the INIT barrier and the
\* reset, close() is called only after every worker has exited, and when the run
\* is over every spawned worker has received exactly INIT and TERMINATE, has
\* initialised its agent and exited, two barrier generations have completed
\* (start-up and INIT), and reset and close have each been called once.
C23_EmptyRange ==
    (MultiWorker /\ EmptyRange) =>
        /\ \A w \in Active :
              /\ IsPrefix(Sent(w), InitThenTerminate)
              /\ IsPrefix(obs[w], Sent(w))
              /\ \A k \in 1..Len(calls[w]) : calls[w][k].m = "init"
              /\ Len(calls[w]) <= 1
              /\ Len(Sent(w)) = 2 => sync.gen = 2 /\ EnvCount("reset") = 1
        /\ IsPrefix(env.calls, ResetThenClose)
        /\ EnvCount("step") = 0
        /\ trace = <<>>
        /\ sync.gen <= 2
        /\ EnvCount("close") = 1 => AllExited
        /\ main.pc = "done" =>
              /\ \A w \in Active :
                    /\ obs[w] = InitThenTerminate
                    /\ pipes[w] = <<>>
                    /\ proc[w].pc = "exited"
                    /\ Len(calls[w]) = 1
              /\ env.calls = ResetThenClose

\* a multi-worker run whose range is empty although timesteps is positive
\* (initial_timestep = timesteps) is over: the workers were spawned, initialised,
\* terminated and joined, and the Environment was reset and closed
C23_Witness ==
    /\ MultiWorker /\ EmptyRange
    /\ self.timesteps > 0
    /\ main.pc = "done"
    /\ \A w \in Active : obs[w] = InitThenTerminate /\ proc[w].pc = "exited"
    /\ env.calls = ResetThenClose

====
